---- MODULE Spec2Model ----
(***************************************************************************)
(* State-machine model of the CC1101 driver: the high-level API of         *)
(* src/src/lib.rs on top of the bus primitives of src/src/lowlevel.rs.     *)
(* The driver is a sequential program; every bus transaction is one step.  *)
(* The chip and the SPI transport are the environment: a register read     *)
(* returns any value of a sample set, a transaction may fail with a        *)
(* transport error.                                                        *)
(*                                                                         *)
(* Spec      the high-level API (receive, transmit, set_radio_mode, ...)   *)
(* SpecLow   the low-level API called directly, in the SpiDevice shape of  *)
(*           lowlevel.rs and the select-pin shape of lowlevel/mod.rs       *)
(* SpecEnc   Command::addr and MultiByte::addr called on their own         *)
(* SpecRssi  get_rssi_dbm                                                  *)
(* SpecLive  set_radio_mode and its polling loop, with fairness, against   *)
(*           a chip that settles in the awaited state or never shows it    *)
(* SpecChip  set_radio_mode against a chip that follows the strobes and    *)
(*           runs each commanded transition on its own schedule            *)
(* SpecTx    transmit with buffers of the shortest and the longest lengths *)
(* SpecCfg   the modem configuration setters on MDMCFG1, MDMCFG3, MDMCFG4  *)
(***************************************************************************)
EXTENDS Integers, Sequences, FiniteSets, TLC

----------------------------------------------------------------------------
(* Bounds of the model *)

\* Largest number of register reads one polling loop makes in the model.
MaxPolls == 3

\* Number of distinct transport error values the bus can report.
NumSpiErrors == 2

----------------------------------------------------------------------------
(* Program constants *)

FIFO_MAX_SIZE == 64
BLANK_BYTE == 0

\* MachineState discriminants
SLEEP == 0
IDLE == 1
MANCAL == 5
RX == 13
TX == 19
TXFIFO_UNDERFLOW == 22

\* Largest discriminant MachineState::from_value accepts (0x16).
LAST_STATE == 22

----------------------------------------------------------------------------
(* Sample inputs and sample register contents *)

\* Raw MARCSTATE register values the chip may show: the states the driver
\* waits for, the underflow state, and 31, which is no state.
MarcSamples == {SLEEP, IDLE, MANCAL, RX, TX, TXFIFO_UNDERFLOW, 31}

\* What the chip may show while the driver awaits state t: t itself, a
\* state it has not left yet or is stuck in, or a code that is no state.
AwaitSamples(t) == {t, IDLE, RX, TX, TXFIFO_UNDERFLOW, 31}

\* Raw RXBYTES register values: bit 7 is the overflow flag.
RxBytesSamples == {0, 3, 4, 131}

\* Raw LQI register values: 42 has bit 7 clear, 170 has bit 7 set.
LqiSamples == {42, 170}

\* Status bytes echoed by the chip.
StatusSamples == {15, 31}

\* Transport error values.
SpiErrors == 1..NumSpiErrors

\* Packets the chip may hold in its RX FIFO.
RxPackets == {<<2, 1, 204, 221>>, <<1, 7, 238>>}

\* Byte the chip shifts out once the RX FIFO is drained.
PadBytes == {0, 255}

\* Buffer lengths callers pass.
BufLens == {0, 1, 2, 4, FIFO_MAX_SIZE, FIFO_MAX_SIZE + 1}

\* The caller's buffer of length n before a call: positions 3 and 4 hold
\* the payload 0xAA 0xBB, the rest a filler.
CallerBuf(n) ==
    [i \in 1..n |-> IF i = 3 THEN 170 ELSE IF i = 4 THEN 187 ELSE 85]

AddrSamples == {1, 127}

RadioModes == {"Idle", "Sleep", "Calibrate", "Transmit", "Receive"}

----------------------------------------------------------------------------
(* Results *)

Res(tag, val) == [tag |-> tag, val |-> val]
None == Res("None", 0)
Ok(v) == Res("Ok", v)

Spi(e) == Res("Spi", e)
UserInputError(n) == Res("UserInputError", n)
InvalidState(v) == Res("InvalidState", v)
RxOverflow == Res("RxOverflow", 0)
TxUnderflow == Res("TxUnderflow", 0)
CrcMismatch == Res("CrcMismatch", 0)
Panicked == Res("Panic", 0)

\* lowlevel::Error::Gpio of the shape that drives the select pin.
Gpio(e) == Res("Gpio", e)

----------------------------------------------------------------------------
(* Pure functions of the driver *)

\* RXBYTES bit field: the count is bits 6..0, the overflow flag bit 7.
num_rxbytes(raw) == raw % 128
rxfifo_overflow(raw) == raw \div 128

\* MARCSTATE bit field: the state is bits 4..0.
marc_state(raw) == raw % 32

\* MachineState::from_value: a known discriminant is the state, anything
\* else takes the panic! arm.
from_value(value) ==
    IF value \in 0..LAST_STATE THEN Res("Ok", value) ELSE Res("Panic", value)

\* The match of read_machine_state on from_value's answer; a failed
\* register read leaves through the ? operator.
read_machine_state_result(raw, err) ==
    IF err # 0 THEN Spi(err)
    ELSE LET r == from_value(marc_state(raw))
         IN CASE r.tag = "Ok" -> Ok(r.val)
              [] r.tag = "Err" -> InvalidState(r.val)
              [] OTHER -> Panicked

\* read_rx_bytes: the count, or RxOverflow when the flag is set.
read_rx_bytes_result(raw, err) ==
    IF err # 0 THEN Spi(err)
    ELSE IF rxfifo_overflow(raw) # 0 THEN RxOverflow
    ELSE Ok(num_rxbytes(raw))

\* rx_stable without the test for a non-zero count.
rx_stable_zero_allowed(num, lastnum) == num = lastnum

\* Loop exit test of rx_bytes_available.
rx_stable(num, lastnum) == (num > 0) /\ (num = lastnum)

\* Length guard of read_data.
read_data_accepts(n) == n <= FIFO_MAX_SIZE

\* write_data has no length guard.
write_data_accepts(n) == TRUE

\* crc_outcome with the test of the CRC bit inverted.
crc_outcome_inverted(lqibyte, len) ==
    IF (lqibyte \div 128) = 1 THEN CrcMismatch ELSE Ok(len)

\* The outcome receive computes from the LQI byte once the FIFO is flushed.
crc_outcome(lqibyte, len) ==
    IF (lqibyte \div 128) # 1 THEN CrcMismatch ELSE Ok(len)

\* buf.len() as u8
as_u8(n) == n % 256

\* tx_length_byte leaving the address byte out of the count.
tx_length_byte_payload_only(tx_len) ==
    IF tx_len < 2 THEN {-1, 254 + tx_len} ELSE {tx_len - 2}

\* tx_len - 1 on u8: the values the build can produce; -1 stands for the
\* overflow panic of a build with overflow checks, 255 for the wrap of one
\* without.
tx_length_byte(tx_len) ==
    IF tx_len = 0 THEN {-1, 255} ELSE {tx_len - 1}

\* The strobe set_radio_mode issues for a mode, and the state it awaits.
radio_strobe(m) ==
    CASE m = "Idle" -> "SIDLE"
      [] m = "Sleep" -> "SPWD"
      [] m = "Calibrate" -> "SCAL"
      [] m = "Transmit" -> "STX"
      [] m = "Receive" -> "SRX"

\* radio_target awaiting IDLE after a calibration and TX after SRX.
radio_target_mixed(m) ==
    CASE m = "Idle" -> IDLE
      [] m = "Sleep" -> SLEEP
      [] m = "Calibrate" -> IDLE
      [] m = "Transmit" -> TX
      [] m = "Receive" -> TX

radio_target(m) ==
    CASE m = "Idle" -> IDLE
      [] m = "Sleep" -> SLEEP
      [] m = "Calibrate" -> MANCAL
      [] m = "Transmit" -> TX
      [] m = "Receive" -> RX

\* What a burst read of n bytes clocks out of an RX FIFO holding pkt.
FifoBytes(pkt, pad, n) ==
    [i \in 1..n |-> IF i <= Len(pkt) THEN pkt[i] ELSE pad]

----------------------------------------------------------------------------
(* Address bytes *)

\* Access and Mode discriminants: bit 7 and bit 6 of the address byte.
Access == [Read |-> 128, Write |-> 0]
Mode == [Single |-> 0, Burst |-> 64]

\* Command discriminants (SAFC, 0x37, is commented out in the source).
Command ==
    [SRES |-> 48, SFSTXON |-> 49, SXOFF |-> 50, SCAL |-> 51, SRX |-> 52,
     STX |-> 53, SIDLE |-> 54, SWOR |-> 56, SPWD |-> 57, SFRX |-> 58,
     SFTX |-> 59, SWORRST |-> 60, SNOP |-> 61]

\* MultiByte discriminants.
MultiByte == [PATABLE |-> 62, FIFO |-> 63]

\* The | of two u8 values, bit by bit from bit 0 up.
RECURSIVE BitOrN(_, _, _)
BitOrN(a, b, n) ==
    IF n = 0 THEN 0
    ELSE (IF a % 2 = 1 \/ b % 2 = 1 THEN 1 ELSE 0)
             + 2 * BitOrN(a \div 2, b \div 2, n - 1)

BitOr(a, b) == BitOrN(a, b, 8)

\* Command::addr with the burst bit placed at bit 7, on top of the access bit.
Command_addr_burst_at_bit7(cmd, access, mode) ==
    BitOr(BitOr(Access[access], 2 * Mode[mode]), Command[cmd])

\* Command::addr: (access as u8) | (mode as u8) | (*self as u8)
Command_addr(cmd, access, mode) ==
    BitOr(BitOr(Access[access], Mode[mode]), Command[cmd])

\* MultiByte::addr: (access as u8) | (mode as u8) | (*self as u8)
MultiByte_addr(mb, access, mode) ==
    BitOr(BitOr(Access[access], Mode[mode]), MultiByte[mb])

\* One encoding as the caller sees it: the space and name of the entity,
\* the access and mode passed, and the byte returned.
Encoding(space, name, access, mode, byte) ==
    [space |-> space, name |-> name, access |-> access, mode |-> mode,
     byte |-> byte]

NoEncoding == Encoding("none", "none", "Write", "Single", 0)

----------------------------------------------------------------------------
(* Inputs of the low-level API and of the conversions *)

\* Register addresses callers pass: the first and the last configuration
\* register.
RegAddrs == {0, 46}

\* Bytes callers write, and bytes the registers may hold at the start.
ByteSamples == {0, 165}

\* The closures callers hand to modify_register.
Modifiers == {"set_msb", "low_nibble"}

Apply(f, v) ==
    CASE f = "set_msb" -> BitOr(v, 128)
      [] f = "low_nibble" -> v % 16

\* Arguments of a low-level call: register or strobe, byte, closure.
Args(reg, val, f) == [reg |-> reg, val |-> val, f |-> f]
NoArgs == Args(0, 0, "none")

\* Transport errors of the select pin.
GpioErrors == {1}

\* Raw RSSI register values: both ends and the middle of the byte range.
RssiSamples == {0, 1, 127, 128, 254, 255}

\* One conversion as the caller sees it: the raw byte read and the dBm
\* value returned.
Conversion(raw, dbm) == [raw |-> raw, dbm |-> dbm]
NoConversion == Conversion(-1, 0)

\* The offset of the RSSI conversion, in dB.
RSSI_OFFSET == 74

\* x / 2 on i16: the quotient truncated toward zero.
Half(x) == IF x >= 0 THEN x \div 2 ELSE -((-x) \div 2)

\* from_rssi_to_rssi_dbm: raw / 2 - offset below 128,
\* (raw - 256) / 2 - offset from 128 on.
from_rssi_to_rssi_dbm(raw_rssi) ==
    IF raw_rssi < 128
    THEN Half(raw_rssi) - RSSI_OFFSET
    ELSE Half(raw_rssi - 256) - RSSI_OFFSET

----------------------------------------------------------------------------
(* The chip's radio state machine *)

\* The chip in state s with the states in todo still to pass through.
Radio(s, todo) == [state |-> s, todo |-> todo]

\* The states the chip passes through once it has taken a strobe: SIDLE
\* ends in IDLE, SRX in RX, STX in TX, SPWD in SLEEP; SCAL runs the
\* calibration and returns to IDLE.
Transition(cmd) ==
    CASE cmd = "SIDLE" -> <<IDLE>>
      [] cmd = "SRX" -> <<RX>>
      [] cmd = "STX" -> <<TX>>
      [] cmd = "SPWD" -> <<SLEEP>>
      [] cmd = "SCAL" -> <<MANCAL, IDLE>>

----------------------------------------------------------------------------
(* State *)

VARIABLES
    pc,       \* position of the driver: "ready", a step label, "done", "panicked"
    op,       \* the API operation in progress
    mode,     \* radio_mode argument of set_radio_mode
    buf,      \* the caller's buffer (buf / data)
    buf_in,   \* the buffer as the caller passed it
    addr,     \* the caller's addr
    result,   \* what the operation returned
    log,      \* the bus transactions of the operation, in order
    status,   \* lowlevel::Cc1101.status, the retained status byte
    last,     \* rx_bytes_available: last
    nbytes,   \* what rx_bytes_available returned to receive
    length,   \* receive: length
    lqi,      \* receive: lqi
    target,   \* await_machine_state: target_state
    ret,      \* where await_machine_state returns to
    polls,    \* reads made so far by the polling loop in progress
    shape,    \* the transport shape of the build: "device" or "pin"
    cs,       \* level of the select line the pin shape drives
    wire,     \* the select-framed byte traffic of the low-level call
    arg,      \* arguments of the low-level call in progress
    regs,     \* the chip's configuration registers
    enc,      \* an address-byte encoding: its inputs and its result
    seen,     \* the RSSI conversions the caller has obtained so far
    chip,     \* how MARCSTATE behaves while the driver polls it
    radio     \* a chip that follows the strobes: its state, its to-do

\* The state of the high-level driver, and the state added for the
\* low-level API, the conversions and the polled chip.
dvars ==
    <<pc, op, mode, buf, buf_in, addr, result, log, status, last, nbytes,
      length, lqi, target, ret, polls>>

xvars == <<shape, cs, wire, arg, regs, enc, seen, chip, radio>>

vars == <<dvars, xvars>>

\* lowlevel::Cc1101::new: no transaction yet, default status.
DriverInit ==
    /\ pc = "ready"
    /\ op = "none"
    /\ mode = "Idle"
    /\ buf = <<>>
    /\ buf_in = <<>>
    /\ addr = 0
    /\ result = None
    /\ log = <<>>
    /\ status = 0
    /\ last = 0
    /\ nbytes = None
    /\ length = 0
    /\ lqi = 0
    /\ target = IDLE
    /\ ret = "return"
    /\ polls = 0

\* The state beside the high-level driver when none of it is in use.
Unused ==
    /\ cs = "high"
    /\ wire = <<>>
    /\ arg = NoArgs
    /\ enc = <<NoEncoding, NoEncoding>>
    /\ seen = <<NoConversion, NoConversion>>
    /\ radio = Radio(IDLE, <<>>)

\* The high-level driver on the SpiDevice shape, against a chip whose
\* MARCSTATE may show anything.
Init ==
    /\ DriverInit
    /\ Unused
    /\ shape = "device"
    /\ regs = [r \in RegAddrs |-> 0]
    /\ chip = "any"

----------------------------------------------------------------------------
(* The bus *)

\* Outcome of one transaction: err = 0 and the status byte echoed, or a
\* transport error.
Outcomes ==
    {[err |-> 0, st |-> s] : s \in StatusSamples}
        \cup {[err |-> e, st |-> 0] : e \in SpiErrors}

Entry(kind, reg, access, tx, rx, err) ==
    [kind |-> kind, reg |-> reg, access |-> access, tx |-> tx, rx |-> rx,
     err |-> err]

\* Transact storing buffer[0] whether or not the transfer failed.
Transact_status_on_failure(e, o) ==
    /\ log' = Append(log, e)
    /\ status' = o.st

\* self.status = StatusByte::from(buffer[0]), reached only past the ?.
Transact(e, o) ==
    /\ log' = Append(log, e)
    /\ status' = IF o.err = 0 THEN o.st ELSE status

\* lowlevel read_register: [raddr, BLANK_BYTE] out, value in buffer[1].
read_register(reg, raw, o) ==
    Transact(Entry("read_register", reg, "Read", <<BLANK_BYTE>>,
                   IF o.err = 0 THEN <<raw>> ELSE <<>>, o.err), o)

\* lowlevel write_cmd_strobe: the address byte alone.
write_cmd_strobe(cmd, o) ==
    Transact(Entry("write_cmd_strobe", cmd, "Write", <<>>, <<>>, o.err), o)

\* lowlevel access_fifo: the address byte and data transferred in place in
\* one transaction; data then holds what the chip shifted out (a failed
\* transaction is taken to leave data as it was).
access_fifo(access, data, miso, o) ==
    /\ Transact(Entry("access_fifo", "FIFO", access, data,
                      IF o.err = 0 THEN miso ELSE <<>>, o.err), o)
    /\ buf' = IF o.err = 0 THEN miso ELSE data

\* What the chip shifts out during a burst write: its status byte.
Echo(data, o) == [i \in 1..Len(data) |-> o.st]

----------------------------------------------------------------------------
(* Leaving an operation *)

Return(r) ==
    /\ pc' = "done"
    /\ result' = r

Panic ==
    /\ pc' = "panicked"
    /\ result' = Panicked

\* Enter await_machine_state(t), continuing at r once t is read.
Await(t, r) ==
    /\ pc' = "await"
    /\ target' = t
    /\ ret' = r
    /\ polls' = 0

\* An API call of the caller; the log is empty whenever pc = "ready".
Call(name) ==
    /\ pc = "ready"
    /\ op' = name

----------------------------------------------------------------------------
(* read_data, write_data, read_machine_state called by the user *)

read_data(b, pkt, pad, o) ==
    /\ Call("read_data")
    /\ buf_in' = b
    /\ IF read_data_accepts(Len(b))
       THEN /\ access_fifo("Read", b, FifoBytes(pkt, pad, Len(b)), o)
            /\ Return(IF o.err # 0 THEN Spi(o.err) ELSE Ok(0))
       ELSE /\ Return(UserInputError(Len(b)))
            /\ buf' = b
            /\ UNCHANGED <<log, status>>
    /\ UNCHANGED <<mode, addr, last, nbytes, length, lqi, target, ret, polls>>
    /\ UNCHANGED xvars

write_data(b, o) ==
    /\ Call("write_data")
    /\ buf_in' = b
    /\ IF write_data_accepts(Len(b))
       THEN /\ access_fifo("Write", b, Echo(b, o), o)
            /\ Return(IF o.err # 0 THEN Spi(o.err) ELSE Ok(0))
       ELSE /\ Return(UserInputError(Len(b)))
            /\ buf' = b
            /\ UNCHANGED <<log, status>>
    /\ UNCHANGED <<mode, addr, last, nbytes, length, lqi, target, ret, polls>>
    /\ UNCHANGED xvars

read_machine_state(raw, o) ==
    /\ Call("read_machine_state")
    /\ read_register("MARCSTATE", raw, o)
    /\ LET r == read_machine_state_result(raw, o.err)
       IN IF r.tag = "Panic" THEN Panic ELSE Return(r)
    /\ UNCHANGED <<mode, buf, buf_in, addr, last, nbytes, length, lqi, target,
                   ret, polls>>
    /\ UNCHANGED xvars

----------------------------------------------------------------------------
(* await_machine_state: one iteration of its loop *)

\* await_machine_state leaving its loop after the first read, whatever
\* state that read showed.
await_machine_state_once(raw, o) ==
    /\ pc = "await"
    /\ polls < MaxPolls
    /\ read_register("MARCSTATE", raw, o)
    /\ LET r == read_machine_state_result(raw, o.err)
       IN CASE r.tag = "Panic" -> Panic /\ UNCHANGED polls
            [] r.tag \notin {"Ok", "Panic"} -> Return(r) /\ UNCHANGED polls
            [] r.tag = "Ok" /\ ret = "return" ->
                   Return(Ok(0)) /\ UNCHANGED polls
            [] OTHER ->
                   /\ pc' = ret
                   /\ polls' = 0
                   /\ UNCHANGED result
    /\ UNCHANGED <<op, mode, buf, buf_in, addr, last, nbytes, length, lqi,
                   target, ret>>
    /\ UNCHANGED xvars

await_machine_state(raw, o) ==
    /\ pc = "await"
    /\ polls < MaxPolls
    /\ read_register("MARCSTATE", raw, o)
    /\ LET r == read_machine_state_result(raw, o.err)
       IN CASE r.tag = "Panic" -> Panic /\ UNCHANGED polls
            [] r.tag \notin {"Ok", "Panic"} -> Return(r) /\ UNCHANGED polls
            [] r.tag = "Ok" /\ r.val = target /\ ret = "return" ->
                   Return(Ok(0)) /\ UNCHANGED polls
            [] r.tag = "Ok" /\ r.val = target /\ ret # "return" ->
                   /\ pc' = ret
                   /\ polls' = 0
                   /\ UNCHANGED result
            [] OTHER ->
                   /\ polls' = polls + 1
                   /\ UNCHANGED <<pc, result>>
    /\ UNCHANGED <<op, mode, buf, buf_in, addr, last, nbytes, length, lqi,
                   target, ret>>
    /\ UNCHANGED xvars

----------------------------------------------------------------------------
(* set_radio_mode *)

\* The chip after strobe cmd: a chip that follows the strobes starts on the
\* strobe's transition when the strobe arrived.
Strobed(cmd, o) ==
    IF chip = "follows" /\ o.err = 0
    THEN Radio(radio.state, Transition(cmd))
    ELSE radio

set_radio_mode(m) ==
    /\ Call("set_radio_mode")
    /\ mode' = m
    /\ pc' = "srm_idle"
    /\ UNCHANGED <<buf, buf_in, addr, result, log, status, last, nbytes,
                   length, lqi, target, ret, polls>>
    /\ UNCHANGED xvars

\* set_radio_mode(Idle), called directly or by the recursion of the other
\* arms: the SIDLE strobe, then await IDLE.
set_radio_mode_idle(o) ==
    /\ pc = "srm_idle"
    /\ write_cmd_strobe("SIDLE", o)
    /\ IF o.err # 0
       THEN Return(Spi(o.err)) /\ UNCHANGED <<target, ret, polls>>
       ELSE /\ Await(IDLE, IF mode = "Idle" THEN "return" ELSE "srm_strobe")
            /\ UNCHANGED result
    /\ UNCHANGED <<op, mode, buf, buf_in, addr, last, nbytes, length, lqi>>
    /\ radio' = Strobed("SIDLE", o)
    /\ UNCHANGED <<shape, cs, wire, arg, regs, enc, seen, chip>>

\* The mode's own strobe, then await the mode's state.
set_radio_mode_strobe(o) ==
    /\ pc = "srm_strobe"
    /\ write_cmd_strobe(radio_strobe(mode), o)
    /\ IF o.err # 0
       THEN Return(Spi(o.err)) /\ UNCHANGED <<target, ret, polls>>
       ELSE /\ Await(radio_target(mode), "return")
            /\ UNCHANGED result
    /\ UNCHANGED <<op, mode, buf, buf_in, addr, last, nbytes, length, lqi>>
    /\ radio' = Strobed(radio_strobe(mode), o)
    /\ UNCHANGED <<shape, cs, wire, arg, regs, enc, seen, chip>>

----------------------------------------------------------------------------
(* receive *)

receive(a, b) ==
    /\ Call("receive")
    /\ addr' = a
    /\ buf' = b
    /\ buf_in' = b
    /\ pc' = "rx_poll"
    /\ last' = 0
    /\ polls' = 0
    /\ UNCHANGED <<mode, result, log, status, nbytes, length, lqi, target, ret>>
    /\ UNCHANGED xvars

\* rx_bytes_available: one iteration of its loop, and the match of receive
\* on what it returns.
rx_bytes_available(raw, o) ==
    /\ pc = "rx_poll"
    /\ polls < MaxPolls
    /\ read_register("RXBYTES", raw, o)
    /\ LET r == read_rx_bytes_result(raw, o.err)
       IN CASE r.tag # "Ok" ->
                   /\ nbytes' = r
                   /\ pc' = "rx_flush_err"
                   /\ UNCHANGED <<last, polls>>
            [] r.tag = "Ok" /\ rx_stable(r.val, last) ->
                   /\ nbytes' = Ok(last)
                   /\ pc' = "rx_read"
                   /\ UNCHANGED <<last, polls>>
            [] OTHER ->
                   /\ last' = r.val
                   /\ polls' = polls + 1
                   /\ UNCHANGED <<pc, nbytes>>
    /\ UNCHANGED <<op, mode, buf, buf_in, addr, result, length, lqi, target,
                   ret>>
    /\ UNCHANGED xvars

\* self.read_data(buf)?; let length = buf[0]; *addr = buf[1];
receive_read_data(pkt, pad, o) ==
    /\ pc = "rx_read"
    /\ IF ~read_data_accepts(Len(buf))
       THEN /\ Return(UserInputError(Len(buf)))
            /\ UNCHANGED <<buf, log, status, length, addr>>
       ELSE /\ access_fifo("Read", buf, FifoBytes(pkt, pad, Len(buf)), o)
            /\ CASE o.err # 0 ->
                        Return(Spi(o.err)) /\ UNCHANGED <<length, addr>>
                 [] o.err = 0 /\ Len(buf) < 2 ->
                        Panic /\ UNCHANGED <<length, addr>>
                 [] OTHER ->
                        /\ length' = FifoBytes(pkt, pad, Len(buf))[1]
                        /\ addr' = FifoBytes(pkt, pad, Len(buf))[2]
                        /\ pc' = "rx_lqi"
                        /\ UNCHANGED result
    /\ UNCHANGED <<op, mode, buf_in, last, nbytes, lqi, target, ret, polls>>
    /\ UNCHANGED xvars

\* receive_read_lqi going on to the flush without awaiting IDLE.
receive_read_lqi_no_await(raw, o) ==
    /\ pc = "rx_lqi"
    /\ read_register("LQI", raw, o)
    /\ IF o.err # 0
       THEN Return(Spi(o.err)) /\ UNCHANGED lqi
       ELSE /\ lqi' = raw
            /\ pc' = "rx_flush"
            /\ UNCHANGED result
    /\ UNCHANGED <<op, mode, buf, buf_in, addr, last, nbytes, length, target,
                   ret, polls>>
    /\ UNCHANGED xvars

\* let lqi = self.0.read_register(Status::LQI)?; then await IDLE
receive_read_lqi(raw, o) ==
    /\ pc = "rx_lqi"
    /\ read_register("LQI", raw, o)
    /\ IF o.err # 0
       THEN Return(Spi(o.err)) /\ UNCHANGED <<lqi, target, ret, polls>>
       ELSE /\ lqi' = raw
            /\ Await(IDLE, "rx_flush")
            /\ UNCHANGED result
    /\ UNCHANGED <<op, mode, buf, buf_in, addr, last, nbytes, length>>
    /\ UNCHANGED xvars

\* The Ok arm's flush, and the outcome decided by the LQI byte.
receive_flush(o) ==
    /\ pc = "rx_flush"
    /\ write_cmd_strobe("SFRX", o)
    /\ Return(IF o.err # 0 THEN Spi(o.err) ELSE crc_outcome(lqi, length))
    /\ UNCHANGED <<op, mode, buf, buf_in, addr, last, nbytes, length, lqi,
                   target, ret, polls>>
    /\ UNCHANGED xvars

\* The Err arm returning the error without the flush.
receive_flush_err_no_flush(o) ==
    /\ pc = "rx_flush_err"
    /\ Return(nbytes)
    /\ UNCHANGED <<op, mode, buf, buf_in, addr, log, status, last, nbytes,
                   length, lqi, target, ret, polls>>
    /\ UNCHANGED xvars

\* The Err arm: flush, then hand on the error of rx_bytes_available.
receive_flush_err(o) ==
    /\ pc = "rx_flush_err"
    /\ write_cmd_strobe("SFRX", o)
    /\ Return(IF o.err # 0 THEN Spi(o.err) ELSE nbytes)
    /\ UNCHANGED <<op, mode, buf, buf_in, addr, last, nbytes, length, lqi,
                   target, ret, polls>>
    /\ UNCHANGED xvars

----------------------------------------------------------------------------
(* transmit *)

\* tx_len, buf[0] = tx_len - 1, buf[1] = *addr: a panic of the
\* subtraction or of either index ends the call before any transaction.
transmit(a, b, lb) ==
    /\ Call("transmit")
    /\ addr' = a
    /\ buf_in' = b
    /\ IF lb < 0 \/ Len(b) < 2
       THEN /\ Panic
            /\ buf' = IF lb >= 0 /\ Len(b) = 1 THEN <<lb>> ELSE b
       ELSE /\ buf' = [b EXCEPT ![1] = lb, ![2] = a]
            /\ pc' = "tx_write"
            /\ UNCHANGED result
    /\ UNCHANGED <<mode, log, status, last, nbytes, length, lqi, target, ret,
                   polls>>
    /\ UNCHANGED xvars

\* self.write_data(buf)?
transmit_write_data(o) ==
    /\ pc = "tx_write"
    /\ IF ~write_data_accepts(Len(buf))
       THEN /\ Return(UserInputError(Len(buf)))
            /\ UNCHANGED <<buf, log, status>>
       ELSE /\ access_fifo("Write", buf, Echo(buf, o), o)
            /\ IF o.err # 0
               THEN Return(Spi(o.err))
               ELSE pc' = "tx_stx" /\ UNCHANGED result
    /\ UNCHANGED <<op, mode, buf_in, addr, last, nbytes, length, lqi, target,
                   ret, polls>>
    /\ UNCHANGED xvars

\* transmit_enable_tx going on to the flush without awaiting IDLE.
transmit_enable_tx_no_await(o) ==
    /\ pc = "tx_stx"
    /\ write_cmd_strobe("STX", o)
    /\ IF o.err # 0
       THEN Return(Spi(o.err))
       ELSE pc' = "tx_flush" /\ UNCHANGED result
    /\ UNCHANGED <<op, mode, buf, buf_in, addr, last, nbytes, length, lqi,
                   target, ret, polls>>
    /\ UNCHANGED xvars

\* self.command(EnableTx)?; then await IDLE
transmit_enable_tx(o) ==
    /\ pc = "tx_stx"
    /\ write_cmd_strobe("STX", o)
    /\ IF o.err # 0
       THEN Return(Spi(o.err)) /\ UNCHANGED <<target, ret, polls>>
       ELSE /\ Await(IDLE, "tx_flush")
            /\ UNCHANGED result
    /\ UNCHANGED <<op, mode, buf, buf_in, addr, last, nbytes, length, lqi>>
    /\ UNCHANGED xvars

\* self.command(FlushTxFifoBuffer)?; Ok(())
transmit_flush(o) ==
    /\ pc = "tx_flush"
    /\ write_cmd_strobe("SFTX", o)
    /\ Return(IF o.err # 0 THEN Spi(o.err) ELSE Ok(0))
    /\ UNCHANGED <<op, mode, buf, buf_in, addr, last, nbytes, length, lqi,
                   target, ret, polls>>
    /\ UNCHANGED xvars

----------------------------------------------------------------------------
(* The caller takes the result; the driver is ready for the next call *)

Finish ==
    /\ pc = "done"
    /\ pc' = "ready"
    /\ op' = "none"
    /\ mode' = "Idle"
    /\ buf' = <<>>
    /\ buf_in' = <<>>
    /\ addr' = 0
    /\ result' = None
    /\ log' = <<>>
    /\ last' = 0
    /\ nbytes' = None
    /\ length' = 0
    /\ lqi' = 0
    /\ target' = IDLE
    /\ ret' = "return"
    /\ polls' = 0
    /\ wire' = <<>>
    /\ arg' = NoArgs
    /\ UNCHANGED <<status, shape, cs, regs, enc, seen, chip, radio>>

Next ==
    \/ \E n \in BufLens, pkt \in RxPackets, pad \in PadBytes, o \in Outcomes :
           read_data(CallerBuf(n), pkt, pad, o)
    \/ \E n \in BufLens, o \in Outcomes : write_data(CallerBuf(n), o)
    \/ \E raw \in MarcSamples, o \in Outcomes : read_machine_state(raw, o)
    \/ \E raw \in AwaitSamples(target), o \in Outcomes :
           await_machine_state(raw, o)
    \/ \E m \in RadioModes : set_radio_mode(m)
    \/ \E o \in Outcomes : set_radio_mode_idle(o)
    \/ \E o \in Outcomes : set_radio_mode_strobe(o)
    \/ \E n \in BufLens : receive(0, CallerBuf(n))
    \/ \E raw \in RxBytesSamples, o \in Outcomes : rx_bytes_available(raw, o)
    \/ \E pkt \in RxPackets, pad \in PadBytes, o \in Outcomes :
           receive_read_data(pkt, pad, o)
    \/ \E raw \in LqiSamples, o \in Outcomes : receive_read_lqi(raw, o)
    \/ \E o \in Outcomes : receive_flush(o)
    \/ \E o \in Outcomes : receive_flush_err(o)
    \/ \E a \in AddrSamples, n \in BufLens :
           \E lb \in tx_length_byte(as_u8(n)) : transmit(a, CallerBuf(n), lb)
    \/ \E o \in Outcomes : transmit_write_data(o)
    \/ \E o \in Outcomes : transmit_enable_tx(o)
    \/ \E o \in Outcomes : transmit_flush(o)
    \/ Finish

Spec == Init /\ [][Next]_vars

----------------------------------------------------------------------------
(* Reading the log *)

IsRead(e, reg) == e.kind = "read_register" /\ e.reg = reg
IsStrobe(e, cmd) == e.kind = "write_cmd_strobe" /\ e.reg = cmd
IsFifo(e) == e.kind = "access_fifo"

\* The value a successful register read returned.
Value(e) == e.rx[1]

\* A successful MARCSTATE read that showed state s.
ShowsState(e, s) ==
    IsRead(e, "MARCSTATE") /\ e.err = 0 /\ Value(e) % 32 = s

\* A successful RXBYTES read with the overflow flag (bit 7) set / clear.
ShowsOverflow(e) == IsRead(e, "RXBYTES") /\ e.err = 0 /\ Value(e) >= 128
ShowsCount(e, n) ==
    IsRead(e, "RXBYTES") /\ e.err = 0 /\ Value(e) < 128 /\ Value(e) = n

Fifos == {i \in DOMAIN log : IsFifo(log[i])}

----------------------------------------------------------------------------
(* C1 *)

\* C1: a FIFO access request (read_data or write_data, directly or through
\* receive and transmit) with a buffer longer than 64 bytes puts no
\* transaction on the bus and, called directly, returns
\* UserInputError(len), in the read and in the write direction.
C1_LongBufferRejected ==
    /\ \A i \in Fifos : Len(log[i].tx) <= 64
    /\ (pc = "done" /\ op \in {"read_data", "write_data"} /\ Len(buf_in) > 64)
           => result = UserInputError(Len(buf_in))

----------------------------------------------------------------------------
(* C2 *)

\* A receive that read a packet, read the LQI register and returned after
\* a flush that the bus carried out.
ReceivedPacket ==
    /\ op = "receive"
    /\ pc = "done"
    /\ Len(log) >= 4
    /\ IsStrobe(log[Len(log)], "SFRX") /\ log[Len(log)].err = 0
    /\ \E i \in Fifos : log[i].err = 0
    /\ \E i \in DOMAIN log : IsRead(log[i], "LQI") /\ log[i].err = 0

FifoBytesRead == log[CHOOSE i \in Fifos : TRUE].rx
LqiRead == Value(log[CHOOSE i \in DOMAIN log : IsRead(log[i], "LQI")])

----------------------------------------------------------------------------
(* C3 *)

\* C3: once the chip has shown a TX FIFO underflow during transmit, the
\* driver stops waiting, the next transaction is the SFTX strobe, and the
\* call returns TxUnderflow, never Ok.
C3_UnderflowFlushedAndReported ==
    op = "transmit" =>
        \A i \in DOMAIN log :
            ShowsState(log[i], TXFIFO_UNDERFLOW) =>
                /\ pc # "await"
                /\ i < Len(log) => IsStrobe(log[i + 1], "SFTX")
                /\ pc = "done" => result = TxUnderflow

----------------------------------------------------------------------------
(* C4 *)

\* C4: read_machine_state on a MARCSTATE state field outside 0x00..0x16
\* returns InvalidState(code); the driver does not panic.
C4_UnknownCodeIsInvalidState ==
    (/\ op = "read_machine_state"
     /\ Len(log) = 1
     /\ log[1].err = 0
     /\ Value(log[1]) % 32 > 22)
        => (pc = "done" /\ result = InvalidState(Value(log[1]) % 32))

----------------------------------------------------------------------------
(* C5 *)

\* The payload the caller passed: the buffer past the two header bytes.
Payload == SubSeq(buf_in, 3, Len(buf_in))

\* C5 as stated: the one burst transmit writes is the number of payload
\* bytes, the address, the payload.
C5_LengthCountsPayloadOnly ==
    op = "transmit" =>
        \A i \in Fifos : log[i].tx = <<Len(Payload), addr>> \o Payload

\* C5 amended: the one burst transmit writes is a length byte counting the
\* address byte and the payload bytes (buf.len() - 1), the address, the
\* payload: [0x03, 0x01, 0xAA, 0xBB] for address 0x01 and payload
\* [0xAA, 0xBB].
C5_LengthCountsAddressAndPayload ==
    op = "transmit" =>
        /\ Cardinality(Fifos) <= 1
        /\ \A i \in Fifos :
               /\ i = 1
               /\ log[i].access = "Write"
               /\ log[i].tx = <<(Len(Payload) + 1) % 256, addr>> \o Payload
        /\ pc \notin {"ready", "tx_write", "panicked"} => Fifos = {1}
        /\ (Fifos # {} /\ addr = 1 /\ Payload = <<170, 187>>)
               => log[1].tx = <<3, 1, 170, 187>>

C5_Witness ==
    /\ op = "transmit"
    /\ pc = "done"
    /\ result = Ok(0)
    /\ log[1].tx = <<3, 1, 170, 187>>

----------------------------------------------------------------------------
(* C6 *)

\* Place of a transaction in the receive sequence.
RxStage(e) ==
    CASE IsRead(e, "RXBYTES") -> 1
      [] IsFifo(e) /\ e.access = "Read" -> 2
      [] IsRead(e, "LQI") -> 3
      [] IsRead(e, "MARCSTATE") -> 4
      [] IsStrobe(e, "SFRX") -> 5
      [] OTHER -> 0

OverflowReported == \E i \in DOMAIN log : ShowsOverflow(log[i])

----------------------------------------------------------------------------
(* C7 *)

\* C7: once a poll of receive shows the overflow flag, the only further
\* transaction is the SFRX strobe (no poll, no burst read, no LQI read, no
\* machine-state read), receive does not return before it, and when the
\* bus carried the strobe out receive returns RxOverflow.
C7_OverflowFlushOnly ==
    op = "receive" =>
        \A i \in DOMAIN log :
            ShowsOverflow(log[i]) =>
                /\ Len(log) <= i + 1
                /\ Len(log) = i + 1 => IsStrobe(log[i + 1], "SFRX")
                /\ Fifos = {}
                /\ \A j \in DOMAIN log :
                       ~IsRead(log[j], "LQI") /\ ~IsRead(log[j], "MARCSTATE")
                /\ pc \in {"rx_flush_err", "done"}
                /\ pc = "done" =>
                       /\ Len(log) = i + 1
                       /\ log[i + 1].err = 0 => result = RxOverflow

C7_Witness ==
    /\ op = "receive"
    /\ pc = "done"
    /\ result = RxOverflow
    /\ Len(log) = 3
    /\ ShowsOverflow(log[2])
    /\ IsStrobe(log[3], "SFRX")

----------------------------------------------------------------------------
(* C8 *)

TxStage(e) ==
    CASE IsFifo(e) /\ e.access = "Write" -> 1
      [] IsStrobe(e, "STX") -> 2
      [] IsRead(e, "MARCSTATE") -> 3
      [] IsStrobe(e, "SFTX") -> 4
      [] OTHER -> 0

\* C8: the transactions of a transmit are, in this order, one burst write
\* of the buffer, the STX strobe, machine-state reads, and the SFTX strobe
\* right after a read of IDLE; a transmit that returns Ok has issued all
\* of them, SFTX last.
C8_TransmitOrder ==
    op = "transmit" =>
        /\ \A i \in DOMAIN log : TxStage(log[i]) > 0
        /\ Len(log) > 0 =>
               (TxStage(log[1]) = 1 /\ Len(log[1].tx) = Len(buf_in))
        /\ \A i \in 1..(Len(log) - 1) :
               LET a == log[i]
                   b == log[i + 1]
               IN /\ a.err = 0
                  /\ TxStage(b) \in {TxStage(a), TxStage(a) + 1}
                  /\ TxStage(a) = TxStage(b) => TxStage(a) = 3
                  /\ TxStage(b) = 4 => ShowsState(a, IDLE)
        /\ (pc = "done" /\ result.tag = "Ok") =>
               /\ Len(log) >= 4
               /\ IsStrobe(log[Len(log)], "SFTX")
               /\ log[Len(log)].err = 0
               /\ ShowsState(log[Len(log) - 1], IDLE)

C8_Witness ==
    /\ op = "transmit"
    /\ pc = "done"
    /\ result = Ok(0)
    /\ Len(log) = 5
    /\ ShowsState(log[3], TX)
    /\ ShowsState(log[4], IDLE)

----------------------------------------------------------------------------
(* C9 *)

\* The strobe and the machine state the claim names for each mode.
NamedStrobe(m) ==
    CASE m = "Sleep" -> "SPWD"
      [] m = "Calibrate" -> "SCAL"
      [] m = "Transmit" -> "STX"
      [] m = "Receive" -> "SRX"
      [] OTHER -> "none"

NamedState(m) ==
    CASE m = "Idle" -> 1
      [] m = "Sleep" -> 0
      [] m = "Calibrate" -> 5
      [] m = "Transmit" -> 19
      [] m = "Receive" -> 13

ModeStrobes == {i \in DOMAIN log : i > 1 /\ log[i].kind = "write_cmd_strobe"}

\* C9: set_radio_mode starts with SIDLE and polls the machine state; the
\* mode's own strobe is issued once, only for a mode other than Idle, and
\* only right after a read of IDLE that no failure preceded;
\* set_radio_mode(Idle) returns at the first read of IDLE; the call
\* returns Ok only right after a read of the mode's target state.
C9_RadioModeOrder ==
    op = "set_radio_mode" =>
        /\ Len(log) > 0 => IsStrobe(log[1], "SIDLE")
        /\ \A i \in 1..(Len(log) - 1) : log[i].err = 0
        /\ \A i \in 2..Len(log) :
               IsRead(log[i], "MARCSTATE") \/ i \in ModeStrobes
        /\ Cardinality(ModeStrobes) <= 1
        /\ \A i \in ModeStrobes :
               /\ mode # "Idle"
               /\ log[i].reg = NamedStrobe(mode)
               /\ ShowsState(log[i - 1], IDLE)
        /\ \A i \in 2..(Len(log) - 1) :
               (ShowsState(log[i], IDLE) /\ ModeStrobes \cap (1..i) = {})
                   => (i + 1) \in ModeStrobes
        /\ (pc = "done" /\ result.tag = "Ok") =>
               /\ Len(log) >= 2
               /\ ShowsState(log[Len(log)], NamedState(mode))
               /\ mode # "Idle" => ModeStrobes # {}
               /\ \E i \in 2..Len(log) : ShowsState(log[i], IDLE)

C9_Witness ==
    /\ op = "set_radio_mode"
    /\ mode = "Calibrate"
    /\ pc = "done"
    /\ result = Ok(0)
    /\ Len(log) = 5
    /\ IsStrobe(log[3], "SCAL")
    /\ ShowsState(log[4], IDLE)
    /\ ShowsState(log[5], MANCAL)

----------------------------------------------------------------------------
(* C10 *)

Polls == {i \in DOMAIN log : IsRead(log[i], "RXBYTES")}

\* Polls i - 1 and i returned the same non-zero count, no overflow flag.
StableAt(i) ==
    \E n \in 1..127 : ShowsCount(log[i - 1], n) /\ ShowsCount(log[i], n)

\* C10: rx_bytes_available returns Ok(n) exactly when the last two polls
\* returned the same non-zero count n without overflow flag, polls no
\* more once that happened, and returns RxOverflow at the first poll that
\* shows the overflow flag; it never returns Ok(0) nor a count read once.
C10_StableOccupancy ==
    op = "receive" =>
        LET k == Cardinality(Polls)
        IN /\ Polls = 1..k
           /\ \A i \in 1..(k - 1) : log[i].err = 0 /\ ~ShowsOverflow(log[i])
           /\ nbytes.tag = "Ok" =>
                  /\ k >= 2
                  /\ nbytes.val > 0
                  /\ ShowsCount(log[k - 1], nbytes.val)
                  /\ ShowsCount(log[k], nbytes.val)
           /\ \A i \in 2..k : StableAt(i) => (i = k /\ nbytes.tag = "Ok")
           /\ (k >= 1 /\ ShowsOverflow(log[k])) <=> nbytes = RxOverflow
           /\ (k >= 1 /\ log[k].err # 0) <=> nbytes.tag = "Spi"
           /\ nbytes.tag \in {"None", "Ok", "RxOverflow", "Spi"}
           /\ nbytes.tag = "None" <=> pc = "rx_poll"

C10_Witness ==
    /\ op = "receive"
    /\ nbytes = Ok(3)
    /\ Cardinality(Polls) = 3
    /\ ShowsCount(log[1], 4)
    /\ ShowsCount(log[2], 3)
    /\ ShowsCount(log[3], 3)

----------------------------------------------------------------------------
(* The low-level API, SpiDevice shape (lowlevel.rs) *)

\* Register::raddr and Register::waddr of a register with 6-bit address reg.
Register_raddr(reg, m) == BitOr(BitOr(Access["Read"], Mode[m]), reg)
Register_waddr(reg, m) == BitOr(BitOr(Access["Write"], Mode[m]), reg)

\* The buffers the four operations hand to the bus.
read_register_buffer(reg) == <<Register_raddr(reg, "Single"), BLANK_BYTE>>

write_register_buffer(reg, byte) == <<Register_waddr(reg, "Single"), byte>>

\* write_cmd_strobe_buffer with a blank byte clocked after the address.
write_cmd_strobe_buffer_with_blank(cmd) ==
    <<Command_addr(cmd, "Write", "Single"), BLANK_BYTE>>

write_cmd_strobe_buffer(cmd) == <<Command_addr(cmd, "Write", "Single")>>

access_fifo_buffer(access) == <<MultiByte_addr("FIFO", access, "Burst")>>

\* One select-framed transaction as seen on the wire: the bytes shifted
\* out to the chip, the bytes the chip shifted back (its status byte
\* first), and the transport error, 0 for none.
Frame(mosi, miso, err) == [mosi |-> mosi, miso |-> miso, err |-> err]

\* The chip's side of a transaction that went through.
Answer(o, bytes) == IF o.err = 0 THEN <<o.st>> \o bytes ELSE <<>>

\* lowlevel write_register: [waddr, byte] out.
write_register(reg, byte, o) ==
    Transact(Entry("write_register", reg, "Write", <<byte>>, <<>>, o.err), o)

\* The chip takes the byte of a register write that went through.
Written(reg, byte, o) ==
    IF o.err = 0 THEN [regs EXCEPT ![reg] = byte] ELSE regs

\* A call of the low-level API.
LowCall(name, a) ==
    /\ Call(name)
    /\ shape = "device"
    /\ arg' = a

read_register_call(reg, o) ==
    /\ LowCall("read_register", Args(reg, 0, "none"))
    /\ read_register(reg, regs[reg], o)
    /\ wire' = <<Frame(read_register_buffer(reg),
                       Answer(o, <<regs[reg]>>), o.err)>>
    /\ Return(IF o.err # 0 THEN Spi(o.err) ELSE Ok(regs[reg]))
    /\ UNCHANGED <<mode, buf, buf_in, addr, last, nbytes, length, lqi, target,
                   ret, polls, shape, cs, regs, enc, seen, chip, radio>>

write_register_call(reg, byte, o) ==
    /\ LowCall("write_register", Args(reg, byte, "none"))
    /\ write_register(reg, byte, o)
    /\ wire' = <<Frame(write_register_buffer(reg, byte),
                       Answer(o, <<o.st>>), o.err)>>
    /\ regs' = Written(reg, byte, o)
    /\ Return(IF o.err # 0 THEN Spi(o.err) ELSE Ok(0))
    /\ UNCHANGED <<mode, buf, buf_in, addr, last, nbytes, length, lqi, target,
                   ret, polls, shape, cs, enc, seen, chip, radio>>

write_cmd_strobe_call(cmd, o) ==
    /\ LowCall("write_cmd_strobe", Args(cmd, 0, "none"))
    /\ write_cmd_strobe(cmd, o)
    /\ wire' = <<Frame(write_cmd_strobe_buffer(cmd), Answer(o, <<>>), o.err)>>
    /\ Return(IF o.err # 0 THEN Spi(o.err) ELSE Ok(0))
    /\ UNCHANGED <<mode, buf, buf_in, addr, last, nbytes, length, lqi, target,
                   ret, polls, shape, cs, regs, enc, seen, chip, radio>>

\* access_fifo: the address byte and data in one transaction of two
\* in-place transfers.
access_fifo_call(access, b, miso, o) ==
    /\ LowCall(IF access = "Read" THEN "read_fifo" ELSE "write_fifo",
               Args("FIFO", 0, "none"))
    /\ buf_in' = b
    /\ access_fifo(access, b, miso, o)
    /\ wire' = <<Frame(access_fifo_buffer(access) \o b, Answer(o, miso),
                       o.err)>>
    /\ Return(IF o.err # 0 THEN Spi(o.err) ELSE Ok(0))
    /\ UNCHANGED <<mode, addr, last, nbytes, length, lqi, target, ret, polls,
                   shape, cs, regs, enc, seen, chip, radio>>

\* modify_register doing the write although the read failed.
modify_register_write_anyway(reg, f, o) ==
    /\ LowCall("modify_register", Args(reg, regs[reg], f))
    /\ read_register(reg, regs[reg], o)
    /\ wire' = <<Frame(read_register_buffer(reg),
                       Answer(o, <<regs[reg]>>), o.err)>>
    /\ pc' = "mr_write"
    /\ UNCHANGED <<mode, buf, buf_in, addr, result, last, nbytes, length, lqi,
                   target, ret, polls, shape, cs, regs, enc, seen, chip, radio>>

\* modify_register: let r = self.read_register(reg)?;
modify_register(reg, f, o) ==
    /\ LowCall("modify_register", Args(reg, regs[reg], f))
    /\ read_register(reg, regs[reg], o)
    /\ wire' = <<Frame(read_register_buffer(reg),
                       Answer(o, <<regs[reg]>>), o.err)>>
    /\ IF o.err # 0
       THEN Return(Spi(o.err))
       ELSE pc' = "mr_write" /\ UNCHANGED result
    /\ UNCHANGED <<mode, buf, buf_in, addr, last, nbytes, length, lqi, target,
                   ret, polls, shape, cs, regs, enc, seen, chip, radio>>

\* modify_register: self.write_register(reg, f(r))?; Ok(())
modify_register_write(o) ==
    /\ pc = "mr_write"
    /\ write_register(arg.reg, Apply(arg.f, arg.val), o)
    /\ wire' = Append(wire, Frame(write_register_buffer(arg.reg,
                                                        Apply(arg.f, arg.val)),
                                  Answer(o, <<o.st>>), o.err))
    /\ regs' = Written(arg.reg, Apply(arg.f, arg.val), o)
    /\ Return(IF o.err # 0 THEN Spi(o.err) ELSE Ok(0))
    /\ UNCHANGED <<op, mode, buf, buf_in, addr, last, nbytes, length, lqi,
                   target, ret, polls, shape, cs, arg, enc, seen, chip, radio>>

\* get_chip_status: the retained status byte.
get_chip_status ==
    /\ LowCall("get_chip_status", NoArgs)
    /\ Return(Ok(status))
    /\ UNCHANGED <<mode, buf, buf_in, addr, log, status, last, nbytes, length,
                   lqi, target, ret, polls, shape, cs, wire, regs, enc, seen,
                   chip, radio>>

----------------------------------------------------------------------------
(* The low-level API, select-pin shape (lowlevel/mod.rs) *)

\* The buffers the five operations hand to the bus first.
pin_read_register_buffer(reg) ==
    <<Register_raddr(reg, "Single"), BLANK_BYTE>>

pin_write_register_buffer(reg, byte) ==
    <<Register_waddr(reg, "Single"), byte>>

pin_write_cmd_strobe_buffer(cmd) == <<Command_addr(cmd, "Write", "Single")>>

pin_read_fifo_buffer ==
    <<MultiByte_addr("FIFO", "Read", "Burst"), BLANK_BYTE, BLANK_BYTE>>

pin_write_fifo_buffer ==
    <<MultiByte_addr("FIFO", "Write", "Burst"), BLANK_BYTE, BLANK_BYTE>>

pin_buffer(name, a) ==
    CASE name = "read_register" -> pin_read_register_buffer(a.reg)
      [] name = "write_register" -> pin_write_register_buffer(a.reg, a.val)
      [] name = "write_cmd_strobe" -> pin_write_cmd_strobe_buffer(a.reg)
      [] name = "read_fifo" -> pin_read_fifo_buffer
      [] name = "write_fifo" -> pin_write_fifo_buffer

\* Outcome of driving the select pin to level want: done, or an error
\* that leaves the line at either level.
PinOutcomes(want) ==
    {[err |-> 0, level |-> want]}
        \cup {[err |-> e, level |-> l] : e \in GpioErrors, l \in {"high", "low"}}

\* A call of the select-pin shape up to self.cs.set_low().map_err(Gpio)?
PinCall(name, a, b, g) ==
    /\ Call(name)
    /\ shape = "pin"
    /\ arg' = a
    /\ buf' = b
    /\ buf_in' = b
    /\ cs' = g.level
    /\ IF g.err # 0
       THEN Return(Gpio(g.err)) /\ wire' = <<>>
       ELSE /\ pc' = "pin_transfer"
            /\ wire' = <<Frame(<<>>, <<>>, 0)>>
            /\ UNCHANGED result
    /\ UNCHANGED <<mode, addr, log, status, last, nbytes, length, lqi, target,
                   ret, polls, shape, regs, enc, seen, chip, radio>>

pin_read_register(reg, g) ==
    PinCall("read_register", Args(reg, 0, "none"), <<>>, g)

pin_write_register(reg, byte, g) ==
    PinCall("write_register", Args(reg, byte, "none"), <<>>, g)

pin_write_cmd_strobe(cmd, g) ==
    PinCall("write_cmd_strobe", Args(cmd, 0, "none"), <<>>, g)

pin_read_fifo(b, g) == PinCall("read_fifo", Args("FIFO", 0, "none"), b, g)

pin_write_fifo(b, g) == PinCall("write_fifo", Args("FIFO", 0, "none"), b, g)

\* What the chip shifts back while the first buffer is clocked out.
PinAnswer(name, a, pkt, o) ==
    CASE name = "read_register" -> <<o.st, regs[a.reg]>>
      [] name = "write_register" -> <<o.st, o.st>>
      [] name = "write_cmd_strobe" -> <<o.st>>
      [] name = "read_fifo" -> <<o.st, pkt[1], pkt[2]>>
      [] name = "write_fifo" -> <<o.st, o.st, o.st>>

\* self.spi.transfer(&mut buffer) / self.spi.write(..), .map_err(Spi)?
pin_transfer(pkt, o) ==
    /\ pc = "pin_transfer"
    /\ wire' = [wire EXCEPT ![1] =
                    Frame(@.mosi \o pin_buffer(op, arg),
                          IF o.err = 0 THEN PinAnswer(op, arg, pkt, o)
                          ELSE <<>>,
                          o.err)]
    /\ regs' = IF op = "write_register" THEN Written(arg.reg, arg.val, o)
               ELSE regs
    /\ CASE o.err # 0 -> Return(Spi(o.err))
         [] o.err = 0 /\ op \in {"read_fifo", "write_fifo"} ->
                pc' = "pin_transfer_buf" /\ UNCHANGED result
         [] OTHER -> pc' = "pin_set_high" /\ UNCHANGED result
    /\ UNCHANGED <<op, mode, buf, buf_in, addr, log, status, last, nbytes,
                   length, lqi, target, ret, polls, shape, cs, arg, enc, seen,
                   chip, radio>>

\* read_fifo: self.spi.transfer(buf); write_fifo: self.spi.write(buf).
\* The chip goes on with the bytes of the packet pkt whose first two it
\* shifted out under the header.
pin_transfer_buf(pkt, pad, o) ==
    /\ pc = "pin_transfer_buf"
    /\ op = "read_fifo" => <<pkt[1], pkt[2]>> = SubSeq(wire[1].miso, 2, 3)
    /\ LET fifo == FifoBytes(pkt, pad, 2 + Len(buf))
           rest == IF op = "read_fifo" THEN SubSeq(fifo, 3, 2 + Len(buf))
                   ELSE [i \in 1..Len(buf) |-> o.st]
       IN /\ wire' = [wire EXCEPT ![1] =
                          Frame(@.mosi \o buf,
                                IF o.err = 0 THEN @.miso \o rest ELSE @.miso,
                                o.err)]
          /\ buf' = IF o.err = 0 /\ op = "read_fifo" THEN rest ELSE buf
    /\ IF o.err # 0
       THEN Return(Spi(o.err))
       ELSE pc' = "pin_set_high" /\ UNCHANGED result
    /\ UNCHANGED <<op, mode, buf_in, addr, log, status, last, nbytes, length,
                   lqi, target, ret, polls, shape, cs, arg, regs, enc, seen,
                   chip, radio>>

\* self.cs.set_high().map_err(Gpio)?; then the value, *len and *addr.
pin_set_high(g) ==
    /\ pc = "pin_set_high"
    /\ cs' = g.level
    /\ IF g.err # 0
       THEN Return(Gpio(g.err)) /\ UNCHANGED <<length, addr>>
       ELSE /\ Return(Ok(IF op = "read_register" THEN wire[1].miso[2] ELSE 0))
            /\ length' = CASE op = "read_fifo" -> wire[1].miso[2]
                           [] op = "write_fifo" -> BLANK_BYTE
                           [] OTHER -> length
            /\ addr' = CASE op = "read_fifo" -> wire[1].miso[3]
                         [] op = "write_fifo" -> BLANK_BYTE
                         [] OTHER -> addr
    /\ UNCHANGED <<op, mode, buf, buf_in, log, status, last, nbytes, lqi,
                   target, ret, polls, shape, wire, arg, regs, enc, seen, chip,
                   radio>>

----------------------------------------------------------------------------
(* The low-level API called directly, in either shape *)

\* Buffer lengths callers of the low-level FIFO access pass.
LowBufLens == {0, 1, 4}

\* A build of either shape against a chip holding any sample bytes.
InitLow ==
    /\ DriverInit
    /\ Unused
    /\ shape \in {"device", "pin"}
    /\ regs \in [RegAddrs -> ByteSamples]
    /\ chip = "any"

NextLow ==
    \/ \E reg \in RegAddrs, o \in Outcomes : read_register_call(reg, o)
    \/ \E reg \in RegAddrs, byte \in ByteSamples, o \in Outcomes :
           write_register_call(reg, byte, o)
    \/ \E cmd \in DOMAIN Command, o \in Outcomes : write_cmd_strobe_call(cmd, o)
    \/ \E n \in LowBufLens, pkt \in RxPackets, pad \in PadBytes,
          o \in Outcomes :
           access_fifo_call("Read", CallerBuf(n), FifoBytes(pkt, pad, n), o)
    \/ \E n \in LowBufLens, o \in Outcomes :
           access_fifo_call("Write", CallerBuf(n), Echo(CallerBuf(n), o), o)
    \/ \E reg \in RegAddrs, f \in Modifiers, o \in Outcomes :
           modify_register(reg, f, o)
    \/ \E o \in Outcomes : modify_register_write(o)
    \/ get_chip_status
    \/ \E reg \in RegAddrs, g \in PinOutcomes("low") : pin_read_register(reg, g)
    \/ \E reg \in RegAddrs, byte \in ByteSamples, g \in PinOutcomes("low") :
           pin_write_register(reg, byte, g)
    \/ \E cmd \in DOMAIN Command, g \in PinOutcomes("low") :
           pin_write_cmd_strobe(cmd, g)
    \/ \E n \in LowBufLens, g \in PinOutcomes("low") :
           pin_read_fifo(CallerBuf(n), g)
    \/ \E n \in LowBufLens, g \in PinOutcomes("low") :
           pin_write_fifo(CallerBuf(n), g)
    \/ \E pkt \in RxPackets, o \in Outcomes : pin_transfer(pkt, o)
    \/ \E pkt \in RxPackets, pad \in PadBytes, o \in Outcomes :
           pin_transfer_buf(pkt, pad, o)
    \/ \E g \in PinOutcomes("high") : pin_set_high(g)
    \/ Finish

SpecLow == InitLow /\ [][NextLow]_vars

\* The bytes a call puts on the wire between select and deselect, in the
\* SpiDevice shape and in the select-pin shape.
DeviceTraffic(name, a, b) ==
    CASE name = "read_register" -> read_register_buffer(a.reg)
      [] name = "write_register" -> write_register_buffer(a.reg, a.val)
      [] name = "write_cmd_strobe" -> write_cmd_strobe_buffer(a.reg)
      [] name = "read_fifo" -> access_fifo_buffer("Read") \o b
      [] name = "write_fifo" -> access_fifo_buffer("Write") \o b

PinTraffic(name, a, b) ==
    IF name \in {"read_fifo", "write_fifo"}
    THEN pin_buffer(name, a) \o b
    ELSE pin_buffer(name, a)

----------------------------------------------------------------------------
(* get_rssi_dbm *)

\* get_rssi_dbm handing on the raw byte without the conversion.
get_rssi_dbm_unconverted(raw, o) ==
    /\ Call("get_rssi_dbm")
    /\ read_register("RSSI", raw, o)
    /\ Return(IF o.err # 0 THEN Spi(o.err) ELSE Ok(raw))
    /\ seen' = IF o.err # 0 THEN seen ELSE <<seen[2], Conversion(raw, raw)>>
    /\ UNCHANGED <<mode, buf, buf_in, addr, last, nbytes, length, lqi, target,
                   ret, polls, shape, cs, wire, arg, regs, enc, chip, radio>>

\* Ok(from_rssi_to_rssi_dbm(self.0.read_register(Status::RSSI)?)); seen
\* keeps the last two conversions the caller obtained.
get_rssi_dbm(raw, o) ==
    /\ Call("get_rssi_dbm")
    /\ read_register("RSSI", raw, o)
    /\ Return(IF o.err # 0 THEN Spi(o.err)
              ELSE Ok(from_rssi_to_rssi_dbm(raw)))
    /\ seen' = IF o.err # 0 THEN seen
               ELSE <<seen[2], Conversion(raw, from_rssi_to_rssi_dbm(raw))>>
    /\ UNCHANGED <<mode, buf, buf_in, addr, last, nbytes, length, lqi, target,
                   ret, polls, shape, cs, wire, arg, regs, enc, chip, radio>>

NextRssi ==
    \/ \E raw \in RssiSamples, o \in Outcomes : get_rssi_dbm(raw, o)
    \/ Finish

SpecRssi == Init /\ [][NextRssi]_vars

----------------------------------------------------------------------------
(* The polling loop against a chip that settles or never does *)

\* What a MARCSTATE read may show while the driver awaits state t and has
\* made n reads: anything; anything but t; or anything at first and t by
\* the MaxPolls-th read.
ChipShows(c, t, n) ==
    CASE c = "any" -> AwaitSamples(t)
      [] c = "never" -> AwaitSamples(t) \ {t}
      [] c = "settles" -> IF n < MaxPolls - 1 THEN AwaitSamples(t) ELSE {t}

InitLive ==
    /\ DriverInit
    /\ Unused
    /\ shape = "device"
    /\ regs = [r \in RegAddrs |-> 0]
    /\ chip \in {"settles", "never"}

\* The next read of the loop of await_machine_state.
Poll ==
    \E raw \in ChipShows(chip, target, polls), o \in Outcomes :
        await_machine_state(raw, o)

NextLive ==
    \/ \E m \in RadioModes : set_radio_mode(m)
    \/ \E o \in Outcomes : set_radio_mode_idle(o)
    \/ \E o \in Outcomes : set_radio_mode_strobe(o)
    \/ \E raw \in ChipShows(chip, target, polls), o \in Outcomes :
           await_machine_state(raw, o)
    \/ Finish

\* The loop is sequential code: while the driver is in it, its next read
\* is made.
SpecLive == InitLive /\ [][NextLive]_vars /\ WF_vars(Poll)

----------------------------------------------------------------------------
(* set_radio_mode against a chip that follows the strobes *)

InitChip ==
    /\ DriverInit
    /\ Unused
    /\ shape = "device"
    /\ regs = [r \in RegAddrs |-> 0]
    /\ chip = "follows"

\* The chip moves on to the next state of its transition, on its own
\* schedule.
chip_step ==
    /\ chip = "follows"
    /\ radio.todo # <<>>
    /\ radio' = Radio(Head(radio.todo), Tail(radio.todo))
    /\ UNCHANGED <<dvars, shape, cs, wire, arg, regs, enc, seen, chip>>

\* A read of MARCSTATE shows the state the chip is in.
NextChip ==
    \/ \E m \in RadioModes : set_radio_mode(m)
    \/ \E o \in Outcomes : set_radio_mode_idle(o)
    \/ \E o \in Outcomes : set_radio_mode_strobe(o)
    \/ \E o \in Outcomes : await_machine_state(radio.state, o)
    \/ chip_step
    \/ Finish

SpecChip == InitChip /\ [][NextChip]_vars

----------------------------------------------------------------------------
(* transmit with short and with long buffers *)

\* Buffer lengths around the ends of the range of the u8 length: none, one
\* byte, the shortest packets, and the lengths 256 and 257 that do not fit.
TxBufLens == {0, 1, 2, 3, 256, 257}

NextTx ==
    \/ \E a \in AddrSamples, n \in TxBufLens :
           \E lb \in tx_length_byte(as_u8(n)) : transmit(a, CallerBuf(n), lb)
    \/ \E o \in Outcomes : transmit_write_data(o)
    \/ \E o \in Outcomes : transmit_enable_tx(o)
    \/ \E raw \in AwaitSamples(target), o \in Outcomes :
           await_machine_state(raw, o)
    \/ \E o \in Outcomes : transmit_flush(o)
    \/ Finish

SpecTx == Init /\ [][NextTx]_vars

----------------------------------------------------------------------------
(* The modem configuration setters *)

\* A field of a configuration register: its lowest bit and its width.
Field(off, width) == [off |-> off, width |-> width]

\* The fields of MDMCFG1 (fec_en, num_preamble, chanspc_e), of MDMCFG4
\* (chanbw_e, chanbw_m, drate_e) and of MDMCFG3 (drate_m).
Fields ==
    [fec_en |-> Field(7, 1), num_preamble |-> Field(4, 3),
     chanspc_e |-> Field(0, 2),
     chanbw_e |-> Field(6, 2), chanbw_m |-> Field(4, 2),
     drate_e |-> Field(0, 4),
     drate_m |-> Field(0, 8)]

\* MDMCFGx::default(): the reset values of the registers.
Default == [MDMCFG1 |-> 34, MDMCFG3 |-> 34, MDMCFG4 |-> 140]

\* The value field f has in the byte bits.
Get(bits, f) == (bits \div 2^Fields[f].off) % 2^Fields[f].width

\* A field setter of a register struct: bits with field f replaced by v.
Set(bits, f, v) ==
    bits - Get(bits, f) * 2^Fields[f].off
         + (v % 2^Fields[f].width) * 2^Fields[f].off

\* MDMCFGx(bits).modify().f1(v1).f2(v2)...bits(): the field setters in
\* sets, <<field, value>> pairs, applied in order to bits.
RECURSIVE modify_bits(_, _)
modify_bits(bits, sets) ==
    IF sets = <<>>
    THEN bits
    ELSE modify_bits(Set(bits, sets[1][1], sets[1][2]), Tail(sets))

\* The preamble lengths a caller may ask for (three of the eight).
NumPreambleBytes == {"Two", "Four", "TwentyFour"}

\* set_num_preamble: NumPreambleBytes to NumPreamble as u8.
preamble_setting(n) ==
    CASE n = "Two" -> 0
      [] n = "Three" -> 1
      [] n = "Four" -> 2
      [] n = "Six" -> 3
      [] n = "Eight" -> 4
      [] n = "Twelve" -> 5
      [] n = "Sixteen" -> 6
      [] n = "TwentyFour" -> 7

\* (mantissa, exponent) pairs from_drate and from_chanbw hand to the
\* setters: the reset values and values at the ends of the fields.
DrateSamples == {<<34, 12>>, <<131, 5>>, <<255, 15>>}
ChanbwSamples == {<<0, 2>>, <<3, 1>>, <<1, 3>>}

\* Arguments of a setter in progress: the register, the byte read from
\* it, the field setters of the closure and the data-rate mantissa.
CfgArgs(reg, val, f, mantissa) ==
    [reg |-> reg, val |-> val, f |-> f, mantissa |-> mantissa]

\* modify_register handing the closure the register's reset value in
\* place of the byte it read.
cfg_modify_from_default(name, reg, sets, mantissa, o) ==
    /\ Call(name)
    /\ arg' = CfgArgs(reg, Default[reg], sets, mantissa)
    /\ read_register(reg, regs[reg], o)
    /\ IF o.err # 0
       THEN Return(Spi(o.err))
       ELSE pc' = "cfg_write" /\ UNCHANGED result
    /\ UNCHANGED <<mode, buf, buf_in, addr, last, nbytes, length, lqi, target,
                   ret, polls, shape, cs, wire, regs, enc, seen, chip, radio>>

\* A setter calling self.0.modify_register(reg, closure): the read.
cfg_modify(name, reg, sets, mantissa, o) ==
    /\ Call(name)
    /\ arg' = CfgArgs(reg, regs[reg], sets, mantissa)
    /\ read_register(reg, regs[reg], o)
    /\ IF o.err # 0
       THEN Return(Spi(o.err))
       ELSE pc' = "cfg_write" /\ UNCHANGED result
    /\ UNCHANGED <<mode, buf, buf_in, addr, last, nbytes, length, lqi, target,
                   ret, polls, shape, cs, wire, regs, enc, seen, chip, radio>>

\* modify_register: the write of the closure's result; set_data_rate goes
\* on to MDMCFG3, the other setters return.
cfg_modify_write(o) ==
    /\ pc = "cfg_write"
    /\ write_register(arg.reg, modify_bits(arg.val, arg.f), o)
    /\ regs' = Written(arg.reg, modify_bits(arg.val, arg.f), o)
    /\ CASE o.err # 0 -> Return(Spi(o.err))
         [] o.err = 0 /\ op = "set_data_rate" ->
                pc' = "sdr_mdmcfg3" /\ UNCHANGED result
         [] OTHER -> Return(Ok(0))
    /\ UNCHANGED <<op, mode, buf, buf_in, addr, last, nbytes, length, lqi,
                   target, ret, polls, shape, cs, wire, arg, enc, seen, chip,
                   radio>>

set_data_rate(mantissa, exponent, o) ==
    cfg_modify("set_data_rate", "MDMCFG4", <<<<"drate_e", exponent>>>>,
               mantissa, o)

\* set_data_rate: the write of MDMCFG3.
set_data_rate_mdmcfg3(o) ==
    /\ pc = "sdr_mdmcfg3"
    /\ LET byte == modify_bits(Default.MDMCFG3, <<<<"drate_m", arg.mantissa>>>>)
       IN /\ write_register("MDMCFG3", byte, o)
          /\ regs' = Written("MDMCFG3", byte, o)
    /\ Return(IF o.err # 0 THEN Spi(o.err) ELSE Ok(0))
    /\ UNCHANGED <<op, mode, buf, buf_in, addr, last, nbytes, length, lqi,
                   target, ret, polls, shape, cs, wire, arg, enc, seen, chip,
                   radio>>

enable_fec(enable, o) ==
    cfg_modify("enable_fec", "MDMCFG1",
               <<<<"fec_en", IF enable THEN 1 ELSE 0>>>>, 0, o)

set_num_preamble(n, o) ==
    /\ Call("set_num_preamble")
    /\ LET sets == <<<<"num_preamble", preamble_setting(n)>>>>
           byte == modify_bits(Default.MDMCFG1, sets)
       IN /\ arg' = CfgArgs("MDMCFG1", Default.MDMCFG1, sets, 0)
          /\ write_register("MDMCFG1", byte, o)
          /\ regs' = Written("MDMCFG1", byte, o)
    /\ Return(IF o.err # 0 THEN Spi(o.err) ELSE Ok(0))
    /\ UNCHANGED <<mode, buf, buf_in, addr, last, nbytes, length, lqi, target,
                   ret, polls, shape, cs, wire, enc, seen, chip, radio>>

set_chanbw(mantissa, exponent, o) ==
    cfg_modify("set_chanbw", "MDMCFG4",
               <<<<"chanbw_m", mantissa>>, <<"chanbw_e", exponent>>>>, 0, o)

\* The registers hold their reset values when the driver is created.
InitCfg ==
    /\ DriverInit
    /\ Unused
    /\ shape = "device"
    /\ regs = Default
    /\ chip = "any"

NextCfg ==
    \/ \E d \in DrateSamples, o \in Outcomes : set_data_rate(d[1], d[2], o)
    \/ \E o \in Outcomes : set_data_rate_mdmcfg3(o)
    \/ \E e \in BOOLEAN, o \in Outcomes : enable_fec(e, o)
    \/ \E n \in NumPreambleBytes, o \in Outcomes : set_num_preamble(n, o)
    \/ \E c \in ChanbwSamples, o \in Outcomes : set_chanbw(c[1], c[2], o)
    \/ \E o \in Outcomes : cfg_modify_write(o)
    \/ Finish

SpecCfg == InitCfg /\ [][NextCfg]_vars

----------------------------------------------------------------------------
(* Address-byte encoding called on its own *)

\* A caller encodes the address byte of a command strobe; enc keeps the
\* last two encodings.
Command_addr_call(cmd, access, m) ==
    /\ enc' = <<enc[2], Encoding("Command", cmd, access, m,
                                 Command_addr(cmd, access, m))>>
    /\ UNCHANGED <<dvars, shape, cs, wire, arg, regs, seen, chip, radio>>

\* A caller encodes the address byte of a multi-byte space.
MultiByte_addr_call(mb, access, m) ==
    /\ enc' = <<enc[2], Encoding("MultiByte", mb, access, m,
                                 MultiByte_addr(mb, access, m))>>
    /\ UNCHANGED <<dvars, shape, cs, wire, arg, regs, seen, chip, radio>>

NextEnc ==
    \/ \E cmd \in DOMAIN Command, a \in DOMAIN Access, m \in DOMAIN Mode :
           Command_addr_call(cmd, a, m)
    \/ \E mb \in DOMAIN MultiByte, a \in DOMAIN Access, m \in DOMAIN Mode :
           MultiByte_addr_call(mb, a, m)

SpecEnc == Init /\ [][NextEnc]_vars

----------------------------------------------------------------------------
(* C11 *)

\* The 6-bit address of the entity an encoding is of.
AddressOf(e) ==
    IF e.space = "Command" THEN Command[e.name] ELSE MultiByte[e.name]

\* The inputs of an encoding.
InputsOf(e) == <<e.space, e.name, e.access, e.mode>>

\* C11: for every command strobe and every multi-byte space, and every
\* access and mode, the encoded address byte is a u8 whose bit 7 is 1
\* exactly for a read, whose bit 6 is 1 exactly for burst and whose bits
\* 5..0 are the entity's address, which is below 64 and so spills into
\* neither bit; hence two encodings of different inputs are different bytes.
C11_AddressByteFields ==
    /\ \A i \in {1, 2} :
           enc[i].space # "none" =>
               /\ enc[i].byte \in 0..255
               /\ AddressOf(enc[i]) \in 0..63
               /\ enc[i].byte \div 128 = (IF enc[i].access = "Read" THEN 1 ELSE 0)
               /\ (enc[i].byte \div 64) % 2 =
                      (IF enc[i].mode = "Burst" THEN 1 ELSE 0)
               /\ enc[i].byte % 64 = AddressOf(enc[i])
    /\ (enc[1].space # "none" /\ InputsOf(enc[1]) # InputsOf(enc[2])) =>
           enc[1].byte # enc[2].byte

\* A write/burst encoding of SNOP (0x7D) after a read/burst encoding of
\* the FIFO (0xFF).
C11_Witness ==
    /\ enc[1] = Encoding("MultiByte", "FIFO", "Read", "Burst", 255)
    /\ enc[2] = Encoding("Command", "SNOP", "Write", "Burst", 125)

----------------------------------------------------------------------------
(* C15 *)

\* C15: a transaction that fails with a transport error is the last one of
\* its operation, and the operation has then returned that transaction's
\* error.
C15_TransportFailureEndsOperation ==
    \A i \in DOMAIN log :
        log[i].err # 0 =>
            /\ i = Len(log)
            /\ pc = "done"
            /\ result = Spi(log[i].err)

----------------------------------------------------------------------------
(* C16 *)

\* C16: once receive has burst-read a packet of n bytes, n the stable
\* occupancy, into a buffer longer than n, every position of the buffer
\* beyond n still holds the byte the caller passed in.
C16_BufferTailUnchanged ==
    (/\ op = "receive"
     /\ nbytes.tag = "Ok"
     /\ \E i \in DOMAIN log : IsFifo(log[i]) /\ log[i].err = 0
     /\ Len(buf_in) > nbytes.val
     /\ SubSeq(buf, 1, nbytes.val) \in RxPackets) =>
        \A i \in (nbytes.val + 1)..Len(buf) : buf[i] = buf_in[i]

----------------------------------------------------------------------------
(* C12 *)

LowOps ==
    {"read_register", "write_register", "write_cmd_strobe", "read_fifo",
     "write_fifo"}

\* C12: in the SpiDevice shape each of read_register, write_register,
\* write_cmd_strobe and access_fifo is one bus transaction: a register
\* read sends the address with the read bit and no burst bit and one blank
\* byte and returns the second byte received; a register write sends the
\* bare address and the value; a strobe sends its bare address and nothing
\* more; a FIFO access sends 0x3F with the burst bit, and the read bit for a
\* read, followed by exactly the caller's buffer.
C12_OneTransactionPerOperation ==
    (shape = "device" /\ pc = "done" /\ op \in LowOps) =>
        /\ Len(wire) = 1
        /\ Len(log) = 1
        /\ CASE op = "read_register" ->
                    /\ wire[1].mosi = <<128 + arg.reg, 0>>
                    /\ result.tag = "Ok" => result.val = wire[1].miso[2]
             [] op = "write_register" -> wire[1].mosi = <<arg.reg, arg.val>>
             [] op = "write_cmd_strobe" -> wire[1].mosi = <<Command[arg.reg]>>
             [] op = "read_fifo" -> wire[1].mosi = <<128 + 64 + 63>> \o buf_in
             [] op = "write_fifo" -> wire[1].mosi = <<64 + 63>> \o buf_in

\* A burst read of the FIFO into a 4-byte buffer that went through.
C12_Witness ==
    /\ shape = "device"
    /\ pc = "done"
    /\ op = "read_fifo"
    /\ result.tag = "Ok"
    /\ Len(buf_in) = 4
    /\ Len(wire[1].miso) = 5

----------------------------------------------------------------------------
(* C13 *)

\* C13: a register read, register write, command strobe, FIFO burst read
\* or FIFO burst write that went through has put on the wire, within one
\* select frame, the bytes either shape sends for those arguments.
C13_ShapesSendSameBytes ==
    (pc = "done" /\ op \in LowOps /\ result.tag = "Ok") =>
        /\ Len(wire) = 1
        /\ wire[1].mosi = DeviceTraffic(op, arg, buf_in)
        /\ wire[1].mosi = PinTraffic(op, arg, buf_in)

----------------------------------------------------------------------------
(* C14 *)

\* C14: in every step of the SpiDevice shape the retained status byte
\* becomes the first byte the chip echoed if the step is a transaction
\* that went through, stays as it was if the step is a transaction that
\* failed or no transaction, and get_chip_status returns it.
C14_StatusIsLastEcho ==
    [][shape = "device" =>
           /\ IF Len(wire') = Len(wire) + 1
              THEN LET f == wire'[Len(wire')]
                   IN status' = IF f.err = 0 THEN f.miso[1] ELSE status
              ELSE status' = status
           /\ (op' = "get_chip_status" /\ pc' = "done") =>
                  result' = Ok(status')]_vars

\* A register write has failed and the status byte is still the 0x1F an
\* earlier transaction echoed.
C14_Witness ==
    /\ shape = "device"
    /\ pc = "done"
    /\ op = "write_register"
    /\ Len(wire) = 1
    /\ wire[1].err # 0
    /\ status = 31

----------------------------------------------------------------------------
(* C19 *)

\* The closures of the model, written out.
Modified(f, v) ==
    IF f = "set_msb" THEN (IF v < 128 THEN v + 128 ELSE v) ELSE v % 16

\* C19: modify_register(reg, f) reads reg once and then, with nothing in
\* between, writes f(v) to reg once, v being the value read; if the read
\* fails it returns the error, issues no write and the register keeps its
\* value.
C19_ReadThenWrite ==
    op = "modify_register" =>
        /\ Len(log) \in {1, 2}
        /\ Len(wire) = Len(log)
        /\ IsRead(log[1], arg.reg)
        /\ Len(log) = 2 =>
               /\ log[1].err = 0
               /\ log[2].kind = "write_register"
               /\ log[2].reg = arg.reg
               /\ log[2].tx = <<Modified(arg.f, Value(log[1]))>>
               /\ pc = "done"
        /\ (log[1].err = 0 /\ pc = "done") => Len(log) = 2
        /\ (pc = "done" /\ result.tag = "Ok") =>
               /\ log[2].err = 0
               /\ regs[arg.reg] = Modified(arg.f, arg.val)
        /\ log[1].err # 0 =>
               /\ Len(log) = 1
               /\ pc = "done"
               /\ result = Spi(log[1].err)
               /\ regs[arg.reg] = arg.val

\* The low nibble of register 0x2E, read as 0xA5, has been written back.
C19_Witness ==
    /\ op = "modify_register"
    /\ pc = "done"
    /\ result.tag = "Ok"
    /\ arg.reg = 46
    /\ Value(log[1]) = 165
    /\ log[2].tx = <<5>>
    /\ regs[46] = 5

----------------------------------------------------------------------------
(* C20 *)

\* C20: in the select-pin shape the select line is high whenever
\* read_register, write_register, write_cmd_strobe, read_fifo or write_fifo
\* has returned, with Ok or with an error.
C20_DeselectedOnReturn ==
    (shape = "pin" /\ pc = "done" /\ op \in LowOps) => cs = "high"

----------------------------------------------------------------------------
(* C17 *)

\* The raw byte read as a two's-complement number.
Signed(raw) == IF raw < 128 THEN raw ELSE raw - 256

\* The claimed mapping of a raw byte, halving as i16 division does.
ClaimedDbm(raw) ==
    IF raw < 128
    THEN (raw \div 2) - RSSI_OFFSET
    ELSE -((256 - raw) \div 2) - RSSI_OFFSET

Conversions == {i \in {1, 2} : seen[i] # NoConversion}

\* C17 as claimed: get_rssi_dbm maps raw r to r/2 - offset below 128 and
\* to (r - 256)/2 - offset from 128 on, and the result for raw byte 0 is
\* strictly below the result for raw byte 255.
C17_RawZeroBelowRaw255 ==
    /\ \A i \in Conversions : seen[i].dbm = ClaimedDbm(seen[i].raw)
    /\ \A i, j \in Conversions :
           (seen[i].raw = 0 /\ seen[j].raw = 255) => seen[i].dbm < seen[j].dbm

\* C17 amended: get_rssi_dbm maps raw r to r/2 - offset below 128 and to
\* (r - 256)/2 - offset from 128 on; the result never decreases as the
\* two's-complement value of the raw byte grows, so the result for raw
\* byte 255 (-1) is not above the result for raw byte 0, and with the
\* halving truncated toward zero the two are equal.
C17_MonotonicInSignedValue ==
    /\ \A i \in Conversions : seen[i].dbm = ClaimedDbm(seen[i].raw)
    /\ \A i, j \in Conversions :
           /\ Signed(seen[i].raw) <= Signed(seen[j].raw) =>
                  seen[i].dbm <= seen[j].dbm
           /\ (seen[i].raw = 0 /\ seen[j].raw = 255) => seen[i].dbm = seen[j].dbm

\* The caller has converted raw byte 0 and then raw byte 255.
C17_Witness ==
    /\ seen[1] = Conversion(0, -74)
    /\ seen[2] = Conversion(255, -74)

----------------------------------------------------------------------------
(* C18 *)

\* The last transaction is a MARCSTATE read that showed the awaited state,
\* that failed on the bus, or that showed a code that is no state.
LastRead == log[Len(log)]
ReadTarget == ShowsState(LastRead, target)
ReadFailed ==
    \/ LastRead.err # 0
    \/ LastRead.err = 0 /\ Value(LastRead) % 32 > LAST_STATE

\* C18: await_machine_state leaves its loop with Ok only right after a
\* read that showed the target and with an error only right after a read
\* that failed; after a read that showed another state it is still in the
\* loop, so against a chip that never shows the target it never returns
\* Ok; against a chip that shows the target by some read and from then on,
\* it leaves the loop, with Ok unless a read failed.
C18_PollsUntilTarget ==
    /\ [][(pc = "await" /\ log' # log) =>
              /\ IsRead(LastRead', "MARCSTATE")
              /\ (pc' = "done" /\ result'.tag = "Ok") => ReadTarget'
              /\ (pc' \notin {"await", "done", "panicked"}) =>
                     (pc' = ret /\ ReadTarget')
              /\ (pc' = "done" /\ result'.tag # "Ok") =>
                     (ReadFailed' /\ result' = Spi(LastRead'.err))
              /\ (~ReadTarget' /\ ~ReadFailed') =>
                     (pc' = "await" /\ polls' = polls + 1)]_vars
    /\ [](chip = "never" => ~(pc = "done" /\ result.tag = "Ok"))
    /\ (chip = "settles" /\ pc = "await") ~>
           (pc # "await" /\ log # <<>> /\ (ReadTarget \/ ReadFailed))

\* set_radio_mode(Idle) has returned Ok after the chip showed TX and then
\* IDLE.
C18_Witness ==
    /\ chip = "settles"
    /\ op = "set_radio_mode"
    /\ pc = "done"
    /\ result = Ok(0)
    /\ Len(log) = 3
    /\ ShowsState(log[2], TX)
    /\ ShowsState(log[3], IDLE)

----------------------------------------------------------------------------
(* C21 *)

\* C21: whenever receive has returned and no transaction of the call
\* failed on the bus, the call has issued the SFRX strobe.
C21_FlushBeforeEveryReturn ==
    (/\ op = "receive"
     /\ pc = "done"
     /\ \A i \in DOMAIN log : log[i].err = 0) =>
        \E i \in DOMAIN log : IsStrobe(log[i], "SFRX")

----------------------------------------------------------------------------
(* C22 *)

\* C22: the burst read receive issues after a stable occupancy n clocks at
\* most n bytes out of the RX FIFO.
C22_BurstReadWithinOccupancy ==
    (op = "receive" /\ nbytes.tag = "Ok") =>
        \A i \in Fifos : Len(log[i].tx) <= nbytes.val

----------------------------------------------------------------------------
(* C23 *)

\* The chip still shows state t at some time: it is in t or has yet to
\* pass through it.
WillShow(t) ==
    \/ radio.state = t
    \/ \E i \in DOMAIN radio.todo : radio.todo[i] = t

\* C23: against a chip that follows every strobe, set_radio_mode is never
\* left polling for a state the chip will not show again, so that each of
\* its polling loops ends and the call returns Ok on a working bus.
C23_AwaitedStateStillAhead ==
    (chip = "follows" /\ op = "set_radio_mode" /\ pc = "await") =>
        WillShow(target)

----------------------------------------------------------------------------
(* C24 *)

\* C24: transmit does not panic while it computes and stores the length
\* byte and the address, whatever the buffer length, and the length byte it
\* writes to the TX FIFO is one less than the number of bytes it writes.
C24_LengthByteMatchesBytesSent ==
    op = "transmit" =>
        /\ ~(pc = "panicked" /\ log = <<>>)
        /\ \A i \in Fifos : log[i].tx[1] = Len(log[i].tx) - 1

----------------------------------------------------------------------------
(* C25 *)

\* C25: set_num_preamble leaves the fields of MDMCFG1 other than the
\* preamble length as they were; FEC enabled before it is enabled after it.
C25_PreambleKeepsOtherFields ==
    [][(op' = "set_num_preamble" /\ regs' # regs) =>
           /\ Get(regs'.MDMCFG1, "fec_en") = Get(regs.MDMCFG1, "fec_en")
           /\ Get(regs'.MDMCFG1, "chanspc_e") =
                  Get(regs.MDMCFG1, "chanspc_e")]_vars

----------------------------------------------------------------------------
(* C26 *)

\* The step is the write of modify_register to MDMCFG4 and goes through.
WritesMdmcfg4 ==
    /\ pc = "cfg_write"
    /\ arg.reg = "MDMCFG4"
    /\ log' # log
    /\ log'[Len(log')].err = 0

\* C26: set_data_rate and set_chanbw write MDMCFG4 right after reading it;
\* the write of set_data_rate sets the data-rate exponent to its argument
\* and keeps the bandwidth fields, the write of set_chanbw sets the
\* bandwidth mantissa and exponent to its arguments and keeps the data-rate
\* exponent, and no other step changes MDMCFG4: after any sequence of
\* calls each field holds what the last call setting it wrote.
C26_RateAndBandwidthIndependent ==
    [][/\ WritesMdmcfg4 =>
              /\ IsRead(log[Len(log)], "MDMCFG4")
              /\ Value(log[Len(log)]) = regs.MDMCFG4
              /\ op \in {"set_data_rate", "set_chanbw"}
              /\ op = "set_data_rate" =>
                     /\ Get(regs'.MDMCFG4, "drate_e") = arg.f[1][2]
                     /\ Get(regs'.MDMCFG4, "chanbw_m") =
                            Get(regs.MDMCFG4, "chanbw_m")
                     /\ Get(regs'.MDMCFG4, "chanbw_e") =
                            Get(regs.MDMCFG4, "chanbw_e")
              /\ op = "set_chanbw" =>
                     /\ Get(regs'.MDMCFG4, "chanbw_m") = arg.f[1][2]
                     /\ Get(regs'.MDMCFG4, "chanbw_e") = arg.f[2][2]
                     /\ Get(regs'.MDMCFG4, "drate_e") =
                            Get(regs.MDMCFG4, "drate_e")
       /\ ~WritesMdmcfg4 => regs'.MDMCFG4 = regs.MDMCFG4]_vars

\* set_chanbw(3, 1) has returned Ok on a register whose data-rate exponent a
\* set_data_rate before it had set to 5; the exponent is still 5.
C26_Witness ==
    /\ op = "set_chanbw"
    /\ pc = "done"
    /\ result = Ok(0)
    /\ arg.f = <<<<"chanbw_m", 3>>, <<"chanbw_e", 1>>>>
    /\ Get(regs.MDMCFG4, "drate_e") = 5
    /\ Get(regs.MDMCFG4, "chanbw_m") = 3
    /\ Get(regs.MDMCFG4, "chanbw_e") = 1

====
